---- MODULE Spec2Model ----
(***************************************************************************)
(* Model of script.js: the slide editor over productData / slideIndex,     *)
(* its autosave (updateProductData), the image load promise of showSlide,  *)
(* the export formatter and the status message timers.                     *)
(*                                                                         *)
(* Texts that the code parses, trims or formats (price text, note text,    *)
(* exported lines) are sequences of one-character strings; titles and      *)
(* image references are opaque strings.  Numbers are integers counting     *)
(* tenths (10 stands for 1.0), wrapped in a tagged record together with    *)
(* the JavaScript values undefined, null and NaN.                          *)
(***************************************************************************)
EXTENDS Integers, Sequences, FiniteSets, TLC

\* ------------------------------------------------------------------ bounds
\* clicks on prev/next accepted while the catalog is still empty
MaxDrift == 1
\* superseded image requests whose event may still be delivered
MaxStale == 1
\* status-message timers pending at once
MaxTimers == 1
\* clipboard writes pending at once
MaxClip == 1
\* largest delta handed to navigateSlide under SpecSeek
MaxDelta == 2

\* ------------------------------------------------------- JavaScript values
Undefined == [k |-> "undefined", v |-> 0]
Null == [k |-> "null", v |-> 0]
NaN == [k |-> "nan", v |-> 0]
Num(x) == [k |-> "num", v |-> x]

Digits == <<"0", "1", "2", "3", "4", "5", "6", "7", "8", "9">>
IsDigit(c) == \E i \in 1..10 : Digits[i] = c
DigitVal(c) == (CHOOSE i \in 1..10 : Digits[i] = c) - 1
IsSpace(c) == c = " "

Abs(x) == IF x < 0 THEN -x ELSE x

RECURSIVE Drop(_, _)
Drop(s, n) == IF n = 0 \/ s = <<>> THEN s ELSE Drop(Tail(s), n - 1)

RECURSIVE SkipWs(_)
SkipWs(s) == IF s # <<>> /\ IsSpace(Head(s)) THEN SkipWs(Tail(s)) ELSE s

RECURSIVE DigitRun(_)
\* number of leading digit characters
DigitRun(s) == IF s # <<>> /\ IsDigit(Head(s)) THEN 1 + DigitRun(Tail(s)) ELSE 0

RECURSIVE DigitsValue(_, _)
\* value of the first n characters of s read as a decimal integer
DigitsValue(s, n) ==
  IF n = 0 THEN 0 ELSE DigitsValue(s, n - 1) * 10 + DigitVal(s[n])

\* parseFloat: skip leading white space, optional sign, the longest prefix
\* digits [ "." digits ]; NaN when that prefix holds no digit.  The value is
\* kept to one fractional digit.
parseFloat(text) ==
  LET s0 == SkipWs(text)
      neg == s0 # <<>> /\ Head(s0) = "-"
      s1 == IF s0 # <<>> /\ Head(s0) \in {"-", "+"} THEN Tail(s0) ELSE s0
      ni == DigitRun(s1)
      s2 == Drop(s1, ni)
      hasDot == s2 # <<>> /\ Head(s2) = "."
      s3 == IF hasDot THEN Tail(s2) ELSE <<>>
      nf == DigitRun(s3)
      mag == DigitsValue(s1, ni) * 10 + (IF nf > 0 THEN DigitVal(s3[1]) ELSE 0)
  IN  IF ni = 0 /\ nf = 0 THEN NaN
      ELSE Num(IF neg THEN -mag ELSE mag)

RECURSIVE IntDigits(_)
\* decimal digits of a natural number
IntDigits(n) ==
  IF n < 10 THEN <<Digits[n + 1]>>
  ELSE IntDigits(n \div 10) \o <<Digits[(n % 10) + 1]>>

\* Number.prototype.toString for a number value p (p.k is "num" or "nan")
NumToString(p) ==
  IF p.k = "nan" THEN <<"N", "a", "N">>
  ELSE LET m == Abs(p.v)
       IN (IF p.v < 0 THEN <<"-">> ELSE <<>>)
          \o IntDigits(m \div 10)
          \o (IF m % 10 # 0 THEN <<".", Digits[(m % 10) + 1]>> ELSE <<>>)

\* Number.prototype.toFixed(0): nearest integer, a tie goes away from zero
toFixed0(p) ==
  IF p.k = "nan" THEN <<"N", "a", "N">>
  ELSE LET m == Abs(p.v)
           r == (m + 5) \div 10
       IN (IF p.v < 0 THEN <<"-">> ELSE <<>>) \o IntDigits(r)

RECURSIVE TrimEnd(_)
TrimEnd(s) ==
  IF s # <<>> /\ IsSpace(s[Len(s)]) THEN TrimEnd(SubSeq(s, 1, Len(s) - 1)) ELSE s

\* String.prototype.trim
trim(s) == TrimEnd(SkipWs(s))

\* ------------------------------------------------------------ input data
\* An item of data.json.  A field the item does not carry is undefined:
\* price as the value Undefined, isAvailable and note by their has* flag.
Item(id, title, image, price, hasAvail, avail, hasNote, note) ==
  [id |-> id, title |-> title, image |-> image, price |-> price,
   hasAvail |-> hasAvail, isAvailable |-> avail,
   hasNote |-> hasNote, note |-> note]

\* Pen: a price, no isAvailable and no note field
Pen == Item(1, "Pen", "pen.png", Num(100), FALSE, TRUE, FALSE, <<>>)
\* Tin: no price field, marked unavailable
Tin == Item(2, "Tin", "tin.png", Undefined, TRUE, FALSE, FALSE, <<>>)
\* Jar: no price field, available by default
Jar == Item(3, "Jar", "jar.png", Undefined, FALSE, TRUE, FALSE, <<>>)
\* Mug: price 10.5, a note with a leading blank
Mug == Item(4, "Mug", "mug.png", Num(105), TRUE, TRUE, TRUE, <<" ", "c">>)

\* the documents the fetch may deliver
Datasets == { <<>>, <<Jar>>, <<Mug>>, <<Pen, Tin>> }

\* what the user may type into the price and the note widget
PriceTexts == { <<>>, <<"1", "0", ".", "0">> }
NoteTexts == { <<>>, <<" ", "a">> }

\* the ways the load can fail before productData is assigned
LoadFailures == { "fetch rejected", "response not ok", "json rejected" }

Placeholder == "data:image/svg+xml"

LoadErrorText == "Error loading data. Check console (Failed to fetch)."

\* every value productImageEl.src is given
Sources ==
  {Placeholder} \cup UNION {{d[i].image : i \in 1..Len(d)} : d \in Datasets}

\* ------------------------------------------------------------------ state
VARIABLES
  productData,      \* the catalog: sequence of product records
  slideIndex,       \* the cursor, 0-based
  fetchDone,        \* fetchProductData has resumed after its awaits
  titleText,        \* productTitleEl.textContent
  priceValue,       \* productPriceEl.value
  notAvailable,     \* notAvailableEl.checked
  noteValue,        \* additionalNoteEl.value
  slideLabel,       \* slideIndexEl.textContent as <<position, count>>
  loading,          \* imageWrapperEl carries the class "loading"
  imgSrc,           \* productImageEl.src
  imgAlt,           \* productImageEl.alt
  opacity,          \* productImageEl.style.opacity
  handlers,         \* productImageEl.onload / onerror are set
  settled,          \* the promise those handlers belong to is settled
  curLoad,          \* the request for imgSrc has not delivered its event
  staleLoads,       \* sources of superseded requests whose event may still
                    \* arrive
  statusText,       \* statusMessageEl.textContent
  timers,           \* setTimeout(clearStatusMessage) not yet fired
  clipPending,      \* clipboard writes awaiting their result
  last              \* trace of the latest load or user command

vars == <<productData, slideIndex, fetchDone, titleText, priceValue,
          notAvailable, noteValue, slideLabel, loading, imgSrc, imgAlt,
          opacity, handlers, settled, curLoad, staleLoads, statusText,
          timers, clipPending, last>>

catalogVars == <<productData, slideIndex>>
widgetVars == <<priceValue, notAvailable, noteValue>>
imageVars == <<loading, imgSrc, imgAlt, opacity, handlers, settled, curLoad,
               staleLoads>>
statusVars == <<statusText, timers>>

NoStatus == <<>>

\* What the latest run of the load or of a user command did.  op: the
\* handler; n: the delta of a navigation; raised: it ended by an exception
\* (uncaught, or for the load caught by its catch block); wrote / msg:
\* updateProductData committed / called displayStatusMessage; again: its
\* call of updateProductData saw the cursor and the widget values of the
\* call before it, with no handler that touches them in between; out: the
\* text handed to the clipboard
Trace(op, n, raised, wrote, msg, again, out) ==
  [op |-> op, n |-> n, raised |-> raised, wrote |-> wrote, msg |-> msg,
   again |-> again, out |-> out]

\* the widgets and the cursor are as the latest call of updateProductData
\* found them: the latest command called it and did not go on to showSlide
DetectorJustRan ==
  \/ last.op \in {"edit", "copy"}
  \/ last.op = "navigate" /\ last.raised

Init ==
  /\ productData = <<>>
  /\ slideIndex = 0
  /\ fetchDone = FALSE
  /\ titleText = ""
  /\ priceValue = <<>>
  /\ notAvailable = FALSE
  /\ noteValue = <<>>
  /\ slideLabel = <<>>
  /\ loading = FALSE
  /\ imgSrc = ""
  /\ imgAlt = ""
  /\ opacity = "unset"
  /\ handlers = FALSE
  /\ settled = FALSE
  /\ curLoad = FALSE
  /\ staleLoads = {}
  /\ statusText = NoStatus
  /\ timers = 0
  /\ clipPending = 0
  /\ last = Trace("init", 0, FALSE, FALSE, FALSE, FALSE, <<>>)

\* ------------------------------------------------------ fetchProductData
\* the mapping of line 30: spread the item, default isAvailable and note
Normalize(item) ==
  [id |-> item.id, title |-> item.title, image |-> item.image,
   price |-> item.price,
   isAvailable |-> IF item.hasAvail THEN item.isAvailable ELSE TRUE,
   note |-> IF item.hasNote THEN item.note ELSE <<>>]

MapNormalize(data) == [i \in 1..Len(data) |-> Normalize(data[i])]

\* ------------------------------------------------------------- showSlide
\* the index showSlide(n) leaves in slideIndex when slideIndex was idx
ShowIndex(n, idx, len) ==
  IF n >= len THEN 0 ELSE IF n < 0 THEN len - 1 ELSE idx

\* productData[slideIndex] is undefined: reading product.title raises
ShowRaises(n, pd, idx) ==
  Len(pd) > 0 /\ ShowIndex(n, idx, Len(pd)) \notin 0..(Len(pd) - 1)

\* productPriceEl.value = product.price ?? ""
PriceWidgetText(price) ==
  IF price.k \in {"undefined", "null"} THEN <<>> ELSE NumToString(price)

\* Assigning productImageEl.src starts a request.  The request it supersedes
\* (pending tells whether there is one, for the source old) is either
\* cancelled by the browser or its event is already on the way; stale are
\* the superseded requests known so far.
StartRequest(pending, old, stale) ==
  /\ curLoad' = TRUE
  /\ \/ staleLoads' = stale
     \/ /\ pending
        /\ Cardinality(stale \cup {old}) <= MaxStale
        /\ staleLoads' = stale \cup {old}

\* showSlide(n) called while slideIndex = idx, on the catalog pd.  When it
\* raises, titleText is left to the caller: the catch block of the load
\* writes it.
showSlide(n, pd, idx) ==
  IF Len(pd) = 0
  THEN /\ slideIndex' = idx
       /\ UNCHANGED <<titleText, widgetVars, slideLabel, imageVars, statusText>>
  ELSE LET i == ShowIndex(n, idx, Len(pd)) IN
       /\ slideIndex' = i
       /\ loading' = TRUE
       /\ IF ShowRaises(n, pd, idx)
          THEN UNCHANGED <<widgetVars, slideLabel, imgSrc, imgAlt, opacity,
                           handlers, settled, curLoad, staleLoads, statusText>>
          ELSE LET product == pd[i + 1] IN
               /\ titleText' = product.title
               /\ priceValue' = PriceWidgetText(product.price)
               /\ notAvailable' = ~product.isAvailable
               /\ noteValue' = product.note
               /\ slideLabel' = <<i + 1, Len(pd)>>
               /\ statusText' = NoStatus
               /\ handlers' = TRUE
               /\ settled' = FALSE
               /\ imgSrc' = product.image
               /\ imgAlt' = product.title
               /\ StartRequest(curLoad, imgSrc, staleLoads)
               /\ UNCHANGED opacity

\* ----------------------------------------------------- updateProductData
NewPrice(text) == IF text = <<>> THEN Null ELSE parseFloat(text)

\* one side of the comparison of lines 127-128
PriceKey(price) == IF price.k # "null" THEN NumToString(price) ELSE <<>>

\* currentProduct is undefined, or its price is: reading .price of the one
\* or .toString of the other raises a TypeError
UpdateRaises(pd, idx) ==
  /\ Len(pd) > 0
  /\ \/ idx \notin 0..(Len(pd) - 1)
     \/ pd[idx + 1].price.k = "undefined"

ChangedByText(cur, pv, na, nv) ==
  \/ PriceKey(cur.price) # pv
  \/ cur.isAvailable # ~na
  \/ cur.note # trim(nv)

Changed(cur, pv, na, nv) ==
  \/ PriceKey(cur.price) # PriceKey(NewPrice(pv))
  \/ cur.isAvailable # ~na
  \/ cur.note # trim(nv)

CommitNoNegation(cur, pv, na, nv) ==
  [cur EXCEPT !.price = NewPrice(pv), !.isAvailable = na, !.note = trim(nv)]

\* the assignments of lines 133-135
Commit(cur, pv, na, nv) ==
  [cur EXCEPT !.price = NewPrice(pv), !.isAvailable = ~na, !.note = trim(nv)]

updateWritesNext(pd, idx, pv, na, nv, showStatus) ==
  IF Len(pd) = 0
  THEN [raised |-> FALSE, wrote |-> FALSE, msg |-> FALSE, pd |-> pd]
  ELSE IF UpdateRaises(pd, idx)
  THEN [raised |-> TRUE, wrote |-> FALSE, msg |-> FALSE, pd |-> pd]
  ELSE IF Changed(pd[idx + 1], pv, na, nv)
  THEN [raised |-> FALSE, wrote |-> TRUE, msg |-> showStatus,
        pd |-> [pd EXCEPT ![((idx + 1) % Len(pd)) + 1] =
                            Commit(pd[idx + 1], pv, na, nv)]]
  ELSE [raised |-> FALSE, wrote |-> FALSE, msg |-> FALSE, pd |-> pd]

\* the outcome of updateProductData(showStatus) on catalog pd, cursor idx and
\* the widget values pv, na, nv
updateProductData(pd, idx, pv, na, nv, showStatus) ==
  IF Len(pd) = 0
  THEN [raised |-> FALSE, wrote |-> FALSE, msg |-> FALSE, pd |-> pd]
  ELSE IF UpdateRaises(pd, idx)
  THEN [raised |-> TRUE, wrote |-> FALSE, msg |-> FALSE, pd |-> pd]
  ELSE IF Changed(pd[idx + 1], pv, na, nv)
  THEN [raised |-> FALSE, wrote |-> TRUE, msg |-> showStatus,
        pd |-> [pd EXCEPT ![idx + 1] = Commit(pd[idx + 1], pv, na, nv)]]
  ELSE [raised |-> FALSE, wrote |-> FALSE, msg |-> FALSE, pd |-> pd]

\* displayStatusMessage(message, duration)
displayNoTimer(message) ==
  /\ timers < MaxTimers
  /\ statusText' = message
  /\ timers' = timers

displayStatusMessage(message) ==
  /\ timers < MaxTimers
  /\ statusText' = message
  /\ timers' = timers + 1

UpdatedMessage(title) == <<"Data for ", title, " updated!">>

\* --------------------------------------------- formatProductDataForSharing
\* The text is a sequence of lines, a line a sequence of string pieces.
\* product.price.toFixed raises when an available record has no price field
FormatRaises(pd) ==
  \E i \in 1..Len(pd) : pd[i].isAvailable /\ pd[i].price.k = "undefined"

ProductLines(product, index) ==
  << IntDigits(index + 1) \o <<". ", product.title>> >>
  \o (IF product.isAvailable
      THEN << <<"   - Price: ">>
              \o (IF product.price.k # "null"
                  THEN toFixed0(product.price) \o <<" PKR">>
                  ELSE <<"N/A">>) >>
      ELSE << <<"   - Status: *Not Available*">> >>)
  \o (IF product.note # <<>>
      THEN << <<"   - Note: ">> \o product.note >>
      ELSE <<>>)

RECURSIVE JoinNoSeparator(_, _)
JoinNoSeparator(pd, n) ==
  IF n = 0 THEN << <<>> >>
  ELSE IF n = 1 THEN ProductLines(pd[1], 0)
  ELSE JoinNoSeparator(pd, n - 1) \o ProductLines(pd[n], n - 1)

RECURSIVE JoinProducts(_, _)
\* the blocks of the first n records joined by the separator line
JoinProducts(pd, n) ==
  IF n = 0 THEN << <<>> >>
  ELSE IF n = 1 THEN ProductLines(pd[1], 0)
  ELSE JoinProducts(pd, n - 1) \o << <<"---">> >> \o ProductLines(pd[n], n - 1)

formatProductDataForSharing(pd) ==
  << <<"--- PRODUCT LIST ---">>, <<>> >>
  \o JoinProducts(pd, Len(pd))
  \o << <<>>, <<"--- END ---">> >>

\* ---------------------------------------------------------------- actions
\* fetchProductData resumes with a document: lines 29-40, and the catch
\* block of lines 41-45 when showSlide(0) raises
LoadData(data) ==
  /\ ~fetchDone
  /\ fetchDone' = TRUE
  /\ productData' = MapNormalize(data)
  /\ IF Len(data) = 0
     THEN /\ titleText' = "No products found."
          /\ UNCHANGED <<slideIndex, widgetVars, slideLabel, imageVars,
                         statusText>>
     ELSE /\ showSlide(0, productData', slideIndex)
          /\ ShowRaises(0, productData', slideIndex)
               => titleText' = LoadErrorText
  /\ last' = Trace("load", 0,
                   ShowRaises(0, productData', slideIndex), FALSE, FALSE,
                   FALSE, <<>>)
  /\ UNCHANGED <<timers, clipPending>>

\* fetchProductData fails before productData is assigned: lines 24-29, 41-45
LoadFail(why) ==
  /\ ~fetchDone
  /\ fetchDone' = TRUE
  /\ titleText' = LoadErrorText
  /\ last' = Trace("load", 0, TRUE, FALSE, FALSE, FALSE, <<>>)
  /\ UNCHANGED <<catalogVars, widgetVars, slideLabel, imageVars, statusVars,
                 clipPending>>

\* navigateSlide(n): lines 148-152
navigateSlide(n) ==
  LET u == updateProductData(productData, slideIndex, priceValue,
                             notAvailable, noteValue, FALSE)
  IN
  /\ Len(productData) = 0 => (slideIndex + n) \in (-MaxDrift)..MaxDrift
  /\ IF u.raised
     THEN /\ last' = Trace("navigate", n, TRUE, FALSE, FALSE, DetectorJustRan, <<>>)
          /\ UNCHANGED <<catalogVars, titleText, widgetVars, slideLabel,
                         imageVars, statusText>>
     ELSE /\ productData' = u.pd
          /\ showSlide(slideIndex + n, u.pd, slideIndex + n)
          /\ ShowRaises(slideIndex + n, u.pd, slideIndex + n)
               => UNCHANGED titleText
          /\ last' = Trace("navigate", n,
                           ShowRaises(slideIndex + n, u.pd, slideIndex + n),
                           u.wrote, FALSE, DetectorJustRan, <<>>)
  /\ UNCHANGED <<fetchDone, timers, clipPending>>

\* the input listener of lines 227-231, run on the widget values pv, na, nv
\* that the user's change produced
InputEvent(pv, na, nv) ==
  LET u == updateProductData(productData, slideIndex, pv, na, nv, TRUE)
  IN
  /\ priceValue' = pv
  /\ notAvailable' = na
  /\ noteValue' = nv
  /\ productData' = u.pd
  /\ IF u.msg
     THEN displayStatusMessage(UpdatedMessage(productData[slideIndex + 1].title))
     ELSE UNCHANGED statusVars
  /\ last' = Trace("edit", 0, u.raised, u.wrote, u.msg,
                   DetectorJustRan /\ <<pv, na, nv>> = widgetVars, <<>>)
  /\ UNCHANGED <<slideIndex, fetchDone, titleText, slideLabel, imageVars,
                 clipPending>>

EditPrice(text) == InputEvent(text, notAvailable, noteValue)
EditAvailability == InputEvent(priceValue, ~notAvailable, noteValue)
EditNote(text) == InputEvent(priceValue, notAvailable, text)

copyFormatsFirst ==
  LET u == updateProductData(productData, slideIndex, priceValue,
                             notAvailable, noteValue, FALSE)
  IN
  /\ productData' = u.pd
  /\ IF u.raised \/ FormatRaises(productData)
     THEN /\ last' = Trace("copy", 0, TRUE, u.wrote, FALSE, DetectorJustRan,
                           <<>>)
          /\ UNCHANGED clipPending
     ELSE /\ clipPending < MaxClip
          /\ clipPending' = clipPending + 1
          /\ last' = Trace("copy", 0, FALSE, u.wrote, FALSE, DetectorJustRan,
                           formatProductDataForSharing(productData))
  /\ UNCHANGED <<slideIndex, fetchDone, titleText, widgetVars, slideLabel,
                 imageVars, statusVars>>

\* copyDataToClipboard up to its await: lines 187-194
copyDataToClipboard ==
  LET u == updateProductData(productData, slideIndex, priceValue,
                             notAvailable, noteValue, FALSE)
  IN
  /\ productData' = u.pd
  /\ IF u.raised \/ FormatRaises(u.pd)
     THEN /\ last' = Trace("copy", 0, TRUE, u.wrote, FALSE, DetectorJustRan,
                           <<>>)
          /\ UNCHANGED clipPending
     ELSE /\ clipPending < MaxClip
          /\ clipPending' = clipPending + 1
          /\ last' = Trace("copy", 0, FALSE, u.wrote, FALSE, DetectorJustRan,
                           formatProductDataForSharing(u.pd))
  /\ UNCHANGED <<slideIndex, fetchDone, titleText, widgetVars, slideLabel,
                 imageVars, statusVars>>

\* copyDataToClipboard after its await: lines 195-205 (the alert that
\* follows the status message changes no state)
ClipboardResult(ok) ==
  /\ clipPending > 0
  /\ clipPending' = clipPending - 1
  /\ displayStatusMessage(IF ok THEN <<"Product list copied to clipboard!">>
                          ELSE <<"Error: Could not copy data to clipboard.">>)
  /\ UNCHANGED <<catalogVars, fetchDone, titleText, widgetVars, slideLabel,
                 imageVars, last>>

ImageFailedMessage == <<"Image failed to load!">>

ImageEventSkipsRecord(from, ok) ==
  /\ handlers
  /\ IF from = "current" THEN curLoad ELSE from \in staleLoads
  /\ (IF from = "current" THEN imgSrc ELSE from) = Placeholder => ok
  /\ LET rest == staleLoads \ {from}
         cur == curLoad /\ from # "current"
     IN
     IF settled
     THEN /\ curLoad' = cur
          /\ staleLoads' = rest
          /\ UNCHANGED <<loading, imgSrc, opacity, settled, statusVars,
                         slideIndex>>
     ELSE /\ settled' = TRUE
          /\ loading' = FALSE
          /\ opacity' = "1"
          /\ IF ok
             THEN /\ curLoad' = cur
                  /\ staleLoads' = rest
                  /\ UNCHANGED <<imgSrc, statusVars, slideIndex>>
             ELSE /\ imgSrc' = Placeholder
                  /\ StartRequest(cur, imgSrc, rest)
                  /\ displayStatusMessage(ImageFailedMessage)
                  /\ slideIndex' = slideIndex + 1
  /\ UNCHANGED <<productData, fetchDone, titleText, widgetVars, slideLabel,
                 imgAlt, handlers, clipPending, last>>

\* The load (ok) or error event of a request reaches productImageEl and runs
\* the handler set there: lines 85, 88 and the reactions of lines 96-109.
\* from is "current" for the request of the latest src assignment, else the
\* source of a superseded request.  The placeholder always decodes.
ImageEvent(from, ok) ==
  /\ handlers
  /\ IF from = "current" THEN curLoad ELSE from \in staleLoads
  /\ (IF from = "current" THEN imgSrc ELSE from) = Placeholder => ok
  /\ LET rest == staleLoads \ {from}
         cur == curLoad /\ from # "current"
     IN
     IF settled
     THEN /\ curLoad' = cur
          /\ staleLoads' = rest
          /\ UNCHANGED <<loading, imgSrc, opacity, settled, statusVars>>
     ELSE /\ settled' = TRUE
          /\ loading' = FALSE
          /\ opacity' = "1"
          /\ IF ok
             THEN /\ curLoad' = cur
                  /\ staleLoads' = rest
                  /\ UNCHANGED <<imgSrc, statusVars>>
             ELSE /\ imgSrc' = Placeholder
                  /\ StartRequest(cur, imgSrc, rest)
                  /\ displayStatusMessage(ImageFailedMessage)
  /\ UNCHANGED <<catalogVars, fetchDone, titleText, widgetVars, slideLabel,
                 imgAlt, handlers, clipPending, last>>

\* a timer of displayStatusMessage fires clearStatusMessage: lines 214-219
TimerFires ==
  /\ timers > 0
  /\ timers' = timers - 1
  /\ statusText' = NoStatus
  /\ UNCHANGED <<catalogVars, fetchDone, titleText, widgetVars, slideLabel,
                 imageVars, clipPending, last>>

Next ==
  \/ \E data \in Datasets : LoadData(data)
  \/ \E why \in LoadFailures : LoadFail(why)
  \/ navigateSlide(-1)
  \/ navigateSlide(1)
  \/ \E text \in PriceTexts : EditPrice(text)
  \/ EditAvailability
  \/ \E text \in NoteTexts : EditNote(text)
  \/ copyDataToClipboard
  \/ \E ok \in BOOLEAN : ClipboardResult(ok)
  \/ \E from \in {"current"} \cup Sources, ok \in BOOLEAN :
        ImageEvent(from, ok)
  \/ TimerFires

Spec == Init /\ [][Next]_vars

\* navigateSlide called with any delta, not only those of the two buttons
Deltas == ((-MaxDelta)..MaxDelta) \ {-1, 0, 1}

SeekNext == Next \/ \E n \in Deltas : navigateSlide(n)

SpecSeek == Init /\ [][SeekNext]_vars

TypeOK ==
  /\ slideIndex \in Int
  /\ timers \in 0..MaxTimers
  /\ clipPending \in 0..MaxClip
  /\ staleLoads \subseteq Sources
  /\ Cardinality(staleLoads) <= MaxStale

\* ----------------------------------------------------------------- claims
HasCurrent ==
  Len(productData) > 0 /\ slideIndex \in 0..(Len(productData) - 1)

EditStep ==
  \/ \E text \in PriceTexts : EditPrice(text)
  \/ EditAvailability
  \/ \E text \in NoteTexts : EditNote(text)

NavStep == navigateSlide(-1) \/ navigateSlide(1)

\* the steps that call updateProductData(false)
SilentStep == NavStep \/ copyDataToClipboard

\* a price that is no number: null, or a field the item never carried
Absent(price) == price.k \in {"undefined", "null"}

\* value equality of the three normalized widget values with a record
SamePrice(old, new) == (Absent(old) /\ Absent(new)) \/ old = new

Differs(cur, pv, na, nv) ==
  \/ ~SamePrice(cur.price, NewPrice(pv))
  \/ cur.isAvailable # ~na
  \/ cur.note # trim(nv)

Stores(rec, pv, na, nv) ==
  /\ SamePrice(rec.price, NewPrice(pv))
  /\ rec.isAvailable = ~na
  /\ rec.note = trim(nv)

\* C1: whenever the catalog is non-empty, slideIndex is an index into it
C1_CursorInRange ==
  Len(productData) > 0 => slideIndex \in 0..(Len(productData) - 1)

\* C2: the step that completes a load of a non-empty list leaves the cursor
\* at 0 and displays the first record; once the load is done only a
\* navigation changes the cursor
C2_LoadResetsCursor ==
  [][ /\ (~fetchDone /\ fetchDone' /\ Len(productData') > 0)
         => /\ slideIndex' = 0
            /\ titleText' = productData'[1].title
            /\ slideLabel' = <<1, Len(productData')>>
      /\ (fetchDone /\ slideIndex' # slideIndex) => NavStep ]_vars

\* the request of source src was started for a record that is not current
StaleForOtherRecord(src) ==
  /\ src \in staleLoads
  /\ src # Placeholder
  /\ HasCurrent
  /\ productData[slideIndex + 1].image # src

\* C3: the load or error event of a request superseded by a navigation to
\* another record changes neither the loading indicator, the image source,
\* the opacity nor the status text, and raises no warning
C3_StaleLoadSuppressed ==
  [][ \A src \in Sources, ok \in BOOLEAN :
        (StaleForOtherRecord(src) /\ ImageEvent(src, ok))
          => UNCHANGED <<loading, imgSrc, opacity, settled, statusText,
                         timers>> ]_vars

\* C4: after a previous/next command on a non-empty catalog, the record that
\* was current when the command was issued stores the normalized values the
\* widgets held at that moment
C4_NavigationFlushes ==
  [][ (Len(productData) > 0 /\ NavStep)
        => /\ HasCurrent
           /\ Stores(productData'[slideIndex + 1], priceValue, notAvailable,
                     noteValue) ]_vars

\* C5: a call of updateProductData that sees the cursor and widget values of
\* the call before it writes nothing and shows no status message
C5_Idempotent ==
  last.again => (~last.wrote /\ ~last.msg)

\* a second call in a row has run on a raw note text that differs from the
\* stored note and on a record the first call could write
C5_Witness ==
  /\ last.again
  /\ last.op = "edit"
  /\ ~last.raised
  /\ HasCurrent
  /\ productData[slideIndex + 1].note # noteValue
  /\ productData[slideIndex + 1].note = trim(noteValue)
  /\ notAvailable

\* C6: updateProductData commits exactly when a normalized widget value
\* differs from the current record, a commit stores all three values, an
\* interactive call shows the confirmation naming the title exactly when it
\* commits and a silent call shows none
C6_CommitIffDiffers ==
  [][ /\ (HasCurrent /\ EditStep)
         => LET cur == productData[slideIndex + 1]
                d == Differs(cur, priceValue', notAvailable', noteValue')
            IN /\ (productData' # productData) = d
               /\ last'.wrote = d
               /\ d => Stores(productData'[slideIndex + 1], priceValue',
                              notAvailable', noteValue')
               /\ last'.msg = d
               /\ d => statusText' = UpdatedMessage(cur.title)
      /\ (HasCurrent /\ SilentStep)
         => LET cur == productData[slideIndex + 1]
                d == Differs(cur, priceValue, notAvailable, noteValue)
            IN /\ (productData' # productData) = d
               /\ last'.wrote = d
               /\ d => Stores(productData'[slideIndex + 1], priceValue,
                              notAvailable, noteValue)
               /\ ~last'.msg
               /\ statusText' \in {statusText, NoStatus} ]_vars

\* C7: on a record whose price is absent and with an empty price widget, an
\* edit of the note or of the toggle does not raise and is committed
C7_AbsentPriceUnchanged ==
  [][ ( /\ HasCurrent
        /\ Absent(productData[slideIndex + 1].price)
        /\ priceValue = <<>>
        /\ EditAvailability \/ \E text \in NoteTexts : EditNote(text) )
        => /\ ~last'.raised
           /\ Stores(productData'[slideIndex + 1], priceValue', notAvailable',
                     noteValue') ]_vars

\* C8: while the catalog is empty a previous, next or edit command raises
\* nothing and changes neither the catalog, the cursor nor the display
C8_EmptyCatalogNoOp ==
  [][ (Len(productData) = 0 /\ (NavStep \/ EditStep))
        => /\ ~last'.raised
           /\ UNCHANGED <<productData, slideIndex, titleText, slideLabel,
                          imageVars, statusVars>> ]_vars

\* C9: from an index of a non-empty catalog, previous from 0 ends at L-1,
\* next from L-1 ends at 0, any other single step moves by one
C9_SingleStepWraps ==
  [][ HasCurrent
        => LET L == Len(productData) IN
           /\ navigateSlide(-1)
                => slideIndex' = IF slideIndex = 0 THEN L - 1
                                 ELSE slideIndex - 1
           /\ navigateSlide(1)
                => slideIndex' = IF slideIndex = L - 1 THEN 0
                                 ELSE slideIndex + 1 ]_vars

\* C10: from an index c of a catalog of length L, navigateSlide(delta) ends
\* at (c + delta) mod L for every delta
C10_SeekIsModulo ==
  [][ \A n \in Deltas \cup {-1, 1} :
        (HasCurrent /\ navigateSlide(n))
          => slideIndex' = (slideIndex + n) % Len(productData) ]_vars

\* the step of copy-all that hands a text to the clipboard
CopyExports == copyDataToClipboard /\ clipPending' # clipPending

\* C11: the text copy-all hands to the clipboard is the export of the catalog
\* as it is after the flush, in which the current record stores the
\* normalized widget values, and the flush shows no status message
C11_CopyFlushesFirst ==
  [][ CopyExports
        => /\ last'.out = formatProductDataForSharing(productData')
           /\ HasCurrent
                => Stores(productData'[slideIndex + 1], priceValue,
                          notAvailable, noteValue)
           /\ ~last'.msg
           /\ UNCHANGED statusVars ]_vars

\* copy-all has exported after its flush wrote the current record
C11_Witness ==
  /\ last.op = "copy"
  /\ last.wrote
  /\ ~last.raised
  /\ HasCurrent
  /\ last.out = formatProductDataForSharing(productData)

\* the second line of a record's block: availability first, then the price
\* rounded to no decimals, N/A for an absent price
ExpectedSecondLine(rec) ==
  IF ~rec.isAvailable THEN <<"   - Status: *Not Available*">>
  ELSE IF Absent(rec.price) THEN <<"   - Price: ", "N/A">>
  ELSE <<"   - Price: ">> \o IntDigits((rec.price.v + 5) \div 10)
       \o <<" PKR">>

\* C12: for every loaded catalog the export does not raise and the second
\* line of every record is the one its availability and price call for
C12_SecondLineByAvailability ==
  /\ ~FormatRaises(productData)
  /\ \A i \in 1..Len(productData) :
       ProductLines(productData[i], i - 1)[2]
         = ExpectedSecondLine(productData[i])

ExpectedBlock(rec, n) ==
  << IntDigits(n) \o <<". ", rec.title>>, ExpectedSecondLine(rec) >>
  \o (IF rec.note # <<>> THEN << <<"   - Note: ">> \o rec.note >> ELSE <<>>)

RECURSIVE ExpectedBlocks(_, _)
ExpectedBlocks(pd, n) ==
  IF n = 1 THEN ExpectedBlock(pd[1], 1)
  ELSE ExpectedBlocks(pd, n - 1) \o << <<"---">> >> \o ExpectedBlock(pd[n], n)

\* header, a blank line, the blocks in catalog order numbered from 1 and
\* separated by "---", a blank line, the footer
ExpectedExport(pd) ==
  << <<"--- PRODUCT LIST ---">>, <<>> >>
  \o (IF Len(pd) = 0 THEN << <<>> >> ELSE ExpectedBlocks(pd, Len(pd)))
  \o << <<>>, <<"--- END ---">> >>

ShownImageEvent(ok) ==
  /\ imgSrc # Placeholder
  /\ ImageEvent("current", ok)

\* C14: a load or navigation that makes a record current sets the loading
\* indicator, and the event of the request it started clears the indicator
\* and restores full opacity; on failure it also substitutes the placeholder
\* and shows the image warning
C14_LoadResolves ==
  [][ /\ (HasCurrent' /\ last' # last /\ last'.op \in {"load", "nav"}
            /\ ~last'.raised)
        => loading'
      /\ \A ok \in BOOLEAN :
           ShownImageEvent(ok)
             => /\ ~loading'
                /\ opacity' = "1"
                /\ ok => imgSrc' = imgSrc
                /\ ~ok => /\ imgSrc' = Placeholder
                          /\ statusText' = ImageFailedMessage ]_vars

\* C15: an image event, and a failed clipboard write, leave the catalog, the
\* cursor and the widget values the commands read unchanged
C15_ErrorsAreLocal ==
  [][ ((\E from \in {"current"} \cup Sources, ok \in BOOLEAN :
          ImageEvent(from, ok))
       \/ ClipboardResult(FALSE))
        => UNCHANGED <<productData, slideIndex, fetchDone, widgetVars>> ]_vars

\* a clipboard write has failed after the image of the current record failed
C15_Witness ==
  /\ HasCurrent
  /\ imgSrc = Placeholder
  /\ statusText = <<"Error: Could not copy data to clipboard.">>

\* C16: whenever the load-error indication is shown the catalog is empty
C16_LoadErrorMeansEmpty ==
  titleText = LoadErrorText => Len(productData) = 0

\* the messages the handlers pass to displayStatusMessage
ShownMessages ==
  { ImageFailedMessage, <<"Product list copied to clipboard!">>,
    <<"Error: Could not copy data to clipboard.">> }
  \cup { UpdatedMessage(productData[i].title) : i \in 1..Len(productData) }

C18_PriceComparedByValue ==
  [][ \A text \in PriceTexts :
        ( /\ HasCurrent
          /\ EditPrice(text)
          /\ productData[slideIndex + 1].price.k = "num"
          /\ parseFloat(text) = productData[slideIndex + 1].price
          /\ productData[slideIndex + 1].isAvailable = ~notAvailable
          /\ productData[slideIndex + 1].note = trim(noteValue) )
          => /\ productData' = productData
             /\ ~last'.raised
             /\ ~last'.wrote
             /\ ~last'.msg
             /\ UNCHANGED statusVars ]_vars

\* "10.0" has been typed over a stored price of 10 and nothing was written
C18_Witness ==
  /\ HasCurrent
  /\ productData[slideIndex + 1].price = Num(100)
  /\ priceValue = <<"1", "0", ".", "0">>
  /\ last.op = "edit"
  /\ ~last.again
  /\ ~last.raised
  /\ ~last.wrote
  /\ ~last.msg

\* C19: once the catalog is loaded, no step changes its length or order or
\* any record's id, title or image, and no step changes any field of a
\* record other than the one at the cursor
C19_CatalogFrame ==
  [][ (fetchDone /\ Len(productData) > 0)
        => /\ Len(productData') = Len(productData)
           /\ \A i \in 1..Len(productData) :
                /\ productData'[i].id = productData[i].id
                /\ productData'[i].title = productData[i].title
                /\ productData'[i].image = productData[i].image
                /\ i # slideIndex + 1 => productData'[i] = productData[i] ]_vars

\* a commit has written the current record of a catalog of two records
C19_Witness ==
  /\ fetchDone
  /\ Len(productData) = 2
  /\ HasCurrent
  /\ last.op \in {"edit", "nav", "copy"}
  /\ last.wrote

\* C20: whenever a record is current, the not-available toggle is checked
\* exactly when the record's isAvailable is false
C20_ToggleIsInverse ==
  HasCurrent => (notAvailable <=> ~productData[slideIndex + 1].isAvailable)

====
